---------------------------- MODULE Spec2Model ----------------------------
(***************************************************************************)
(* Doctor-patient demo backend (src/main.py): the single-slot              *)
(* AppointmentStore behind an asyncio.Lock, the JioMeetClient that builds  *)
(* MeetingInfo records by query-string manipulation, and the four HTTP     *)
(* handlers that drive them.                                               *)
(*                                                                         *)
(* Text is modelled as a sequence of tokens.  A token is either a run of   *)
(* characters that urllib leaves alone (letters, digits, "_.-~", written   *)
(* as one TLA+ string such as "Dr."), or one of the characters that the    *)
(* query-string codec treats specially (" ", "&", "=", "+", "%", "#",      *)
(* "?"), or, in encoded text only, one percent escape ("%26").  The part   *)
(* of a URL before its query (scheme://netloc/path) is one token.          *)
(*                                                                         *)
(* Optional[T] is modelled as a sequence of length at most one: None is    *)
(* <<>>, a present value x is <<x>>.                                       *)
(*                                                                         *)
(* Scheduling.  Each request is a task.  A task runs without interruption  *)
(* from one await to the next and may be suspended at each of them: at     *)
(* `async with self._lock` when the lock is taken, inside the store        *)
(* operation while it holds the lock, and once inside                      *)
(* `await client.create_meeting`: at `await client.post` when the provider *)
(* is called, before the call returns otherwise.  The network await is     *)
(* where CPython's event loop does switch tasks; the others are the        *)
(* suspensions the store's lock is there to make harmless, so the model    *)
(* allows them too.                                                        *)
(***************************************************************************)
EXTENDS Integers, Sequences, FiniteSets

None == <<>>

Some(x) == <<x>>

Get(o) == o[1]

(***************************************************************************)
(* Sequence helpers.                                                       *)
(***************************************************************************)
RECURSIVE IndexOf(_, _, _)
\* s.find(c) from position i on: the first index >= i holding c, or 0
IndexOf(s, c, i) ==
    IF i > Len(s) THEN 0
    ELSE IF s[i] = c THEN i
    ELSE IndexOf(s, c, i + 1)

RECURSIVE Split(_, _)
\* s.split(c): the pieces of s between occurrences of token c
Split(s, c) ==
    LET i == IndexOf(s, c, 1)
    IN  IF i = 0 THEN <<s>>
        ELSE <<SubSeq(s, 1, i - 1)>> \o Split(SubSeq(s, i + 1, Len(s)), c)

RECURSIVE Join(_, _)
\* c.join(parts)
Join(parts, c) ==
    IF Len(parts) = 0 THEN <<>>
    ELSE IF Len(parts) = 1 THEN parts[1]
    ELSE parts[1] \o <<c>> \o Join(Tail(parts), c)

RECURSIVE strip(_)
\* str.strip(): leading and trailing whitespace removed
strip(s) ==
    IF Len(s) = 0 THEN s
    ELSE IF s[1] = " " THEN strip(Tail(s))
    ELSE IF s[Len(s)] = " " THEN strip(SubSeq(s, 1, Len(s) - 1))
    ELSE s

(***************************************************************************)
(* urllib.parse as used by JioMeetClient._augment_url.                     *)
(***************************************************************************)
\* urllib.parse.quote_plus on one token
QuoteToken(c) ==
    CASE c = " " -> "+"
      [] c = "&" -> "%26"
      [] c = "=" -> "%3D"
      [] c = "+" -> "%2B"
      [] c = "%" -> "%25"
      [] c = "#" -> "%23"
      [] c = "?" -> "%3F"
      [] OTHER   -> c

\* s.replace("+", " ") followed by urllib.parse.unquote, on one token
UnquoteToken(c) ==
    CASE c = "+"   -> " "
      [] c = "%20" -> " "
      [] c = "%26" -> "&"
      [] c = "%3D" -> "="
      [] c = "%2B" -> "+"
      [] c = "%25" -> "%"
      [] c = "%23" -> "#"
      [] c = "%3F" -> "?"
      [] OTHER     -> c

quote_plus(s) == [i \in 1..Len(s) |-> QuoteToken(s[i])]

unquote_plus(s) == [i \in 1..Len(s) |-> UnquoteToken(s[i])]

\* urlparse(url): fragment cut at the first "#", then query at the first "?"
urlparse(url) ==
    LET h    == IndexOf(url, "#", 1)
        body == IF h = 0 THEN url ELSE SubSeq(url, 1, h - 1)
        frag == IF h = 0 THEN <<>> ELSE SubSeq(url, h + 1, Len(url))
        q    == IndexOf(body, "?", 1)
    IN  [prefix   |-> IF q = 0 THEN body ELSE SubSeq(body, 1, q - 1),
         query    |-> IF q = 0 THEN <<>> ELSE SubSeq(body, q + 1, Len(body)),
         fragment |-> frag]

\* urlunparse(parsed): empty query and empty fragment are left out
urlunparse(p) ==
    p.prefix
      \o (IF p.query = <<>> THEN <<>> ELSE <<"?">> \o p.query)
      \o (IF p.fragment = <<>> THEN <<>> ELSE <<"#">> \o p.fragment)

RECURSIVE ParsePairs(_)
\* the loop of parse_qsl(qs, keep_blank_values=True) over qs.split("&")
ParsePairs(segs) ==
    IF Len(segs) = 0 THEN <<>>
    ELSE LET nv == Head(segs)
             e  == IndexOf(nv, "=", 1)
             kv == IF e = 0
                   THEN <<unquote_plus(nv), <<>>>>
                   ELSE <<unquote_plus(SubSeq(nv, 1, e - 1)),
                          unquote_plus(SubSeq(nv, e + 1, Len(nv)))>>
         IN  IF nv = <<>> THEN ParsePairs(Tail(segs))
             ELSE <<kv>> \o ParsePairs(Tail(segs))

parse_qsl(qs) == ParsePairs(Split(qs, "&"))

(***************************************************************************)
(* A Python dict as the sequence of its <<key, value>> items in insertion  *)
(* order, keys unique.                                                     *)
(***************************************************************************)
DictKeys(d) == {d[i][1] : i \in 1..Len(d)}

\* d[k] = v that moves an existing key to the end
DictSetMovesLast(d, k, v) ==
    Append(SelectSeq(d, LAMBDA kv : kv[1] # k), <<k, v>>)

\* d[k] = v: an existing key keeps its place, a new key goes last
DictSet(d, k, v) ==
    IF k \in DictKeys(d)
    THEN [i \in 1..Len(d) |-> IF d[i][1] = k THEN <<k, v>> ELSE d[i]]
    ELSE Append(d, <<k, v>>)

\* d.pop(k, None) that leaves the key in
DictPopKeeps(d, k) == d

\* d.pop(k, None)
DictPop(d, k) == SelectSeq(d, LAMBDA kv : kv[1] # k)

RECURSIVE dict(_)
\* dict(pairs): a repeated key keeps its first place and its last value
dict(pairs) ==
    IF Len(pairs) = 0 THEN <<>>
    ELSE LET kv == pairs[Len(pairs)]
         IN  DictSet(dict(SubSeq(pairs, 1, Len(pairs) - 1)), kv[1], kv[2])

\* urlencode(d, doseq=True) for string values
urlencode(d) ==
    Join([i \in 1..Len(d) |-> quote_plus(d[i][1]) \o <<"=">> \o quote_plus(d[i][2])], "&")

(***************************************************************************)
(* JioMeetClient: URL derivation.                                          *)
(***************************************************************************)
RECURSIVE PopAll(_, _)
\* for key in remove_keys: existing.pop(key, None)
PopAll(d, keys) ==
    IF keys = {} THEN d
    ELSE LET k == CHOOSE x \in keys : TRUE
         IN  PopAll(DictPop(d, k), keys \ {k})

RECURSIVE ApplyParams(_, _)
\* for key, value in params.items(): pop the key when value is None, else set it
ApplyParams(d, params) ==
    IF Len(params) = 0 THEN d
    ELSE LET key   == Head(params)[1]
             value == Head(params)[2]
         IN  ApplyParams(IF value = None THEN DictPop(d, key)
                                         ELSE DictSet(d, key, Get(value)),
                         Tail(params))

\* JioMeetClient._augment_url(base_url, params, remove_keys)
augment_url(base_url, params, remove_keys) ==
    LET parsed    == urlparse(base_url)
        existing  == dict(parse_qsl(parsed.query))
        removed   == PopAll(existing, remove_keys)
        updated   == ApplyParams(removed, params)
        new_query == urlencode(updated)
    IN  urlunparse([parsed EXCEPT !.query = new_query])

\* SanitizedKeys without hostToken
SanitizedKeysKeepToken == {<<"displayName">>, <<"name">>, <<"autoJoin">>}

\* the query parameters stripped from the provider's link
SanitizedKeys == {<<"displayName">>, <<"name">>, <<"autoJoin">>, <<"hostToken">>}

\* PatientParams with the host token passed on to the patient
PatientParamsLeak(patient_name, host_token) ==
    << <<<<"name">>, Some(patient_name)>>,
       <<<<"autoJoin">>, Some(<<"true">>)>>,
       <<<<"hostToken">>, host_token>> >>

\* the params mapping of the patient link: hostToken is always None
PatientParams(patient_name, host_token) ==
    << <<<<"name">>, Some(patient_name)>>,
       <<<<"autoJoin">>, Some(<<"true">>)>>,
       <<<<"hostToken">>, None>> >>

\* the params mapping of the doctor link
DoctorParams(doctor_name, host_token) ==
    << <<<<"name">>, Some(doctor_name)>>,
       <<<<"autoJoin">>, Some(<<"true">>)>>,
       <<<<"hostToken">>, host_token>> >>

\* JioMeetClient._build_meeting_info(base_url, doctor_name, patient_name, host_token, provider)
build_meeting_info(base_url, doctor_name, patient_name, host_token, provider, now) ==
    LET sanitized_base == augment_url(base_url, <<>>, SanitizedKeys)
    IN  [provider    |-> provider,
         base_url    |-> sanitized_base,
         doctor_url  |-> augment_url(sanitized_base, DoctorParams(doctor_name, host_token), {}),
         patient_url |-> augment_url(sanitized_base, PatientParams(patient_name, host_token), {}),
         created_at  |-> now,
         host_token  |-> host_token]

(***************************************************************************)
(* Bounds of the model and the inputs the requests are drawn from.         *)
(***************************************************************************)
\* number of concurrently running request tasks
NumTasks == 2

\* number of HTTP requests accepted in one behaviour
MaxRequests == 4

Tasks == 1..NumTasks

\* os.getenv("DUMMY_PATIENT_NAME", "Patient Demo")
default_patient == <<"Patient", " ", "Demo">>

\* Python truthiness of an Optional[str]
Truthy(o) == o # None /\ Get(o) # <<>>

\* a or b
Or(a, b) == IF Truthy(a) THEN a ELSE b

\* request bodies offered to POST /api/appointment: one that the request model
\* accepts (padded doctor name, no patient name) and one that it rejects.  The
\* store and the handlers never look into the names, so one accepted body
\* stands for all of them.
Payloads ==
    { [doctor_name |-> <<" ", "Dr.", " ", "Demo">>, patient_name |-> None],
      [doctor_name |-> <<>>,                        patient_name |-> Some(<<"Jane">>)] }

\* AppointmentCreateRequest: doctor_name has min_length=1, patient_name is optional
AppointmentCreateRequest(payload) == Len(payload.doctor_name) >= 1

\* the environment create_app reads: credentials and JIOMEET_MOCK_MODE
Configs ==
    { [app_id |-> Some(<<"app">>), app_secret |-> Some(<<"secret">>),
       subdomain |-> Some(<<"demo.jiomeet.com">>), mock_mode |-> FALSE],
      [app_id |-> None, app_secret |-> None, subdomain |-> None, mock_mode |-> FALSE] }

\* JioMeetClient that goes by the credentials alone and ignores JIOMEET_MOCK_MODE
JioMeetClientIgnoresOverride(cfg) ==
    [app_id     |-> cfg.app_id,
     app_secret |-> cfg.app_secret,
     subdomain  |-> cfg.subdomain,
     mock_mode  |-> ~(Truthy(cfg.app_id) /\ Truthy(cfg.app_secret) /\ Truthy(cfg.subdomain))]

\* JioMeetClient.__init__
JioMeetClient(cfg) ==
    [app_id     |-> cfg.app_id,
     app_secret |-> cfg.app_secret,
     subdomain  |-> cfg.subdomain,
     mock_mode  |-> cfg.mock_mode
                      \/ ~(Truthy(cfg.app_id) /\ Truthy(cfg.app_secret) /\ Truthy(cfg.subdomain))]

\* values of uuid4().hex[:10].upper()
MockMeetingIds == {<<"0A1B2C3D4E">>}

\* values of f"{uuid4().int % 1000000:06d}"
MockPins == {<<"000042">>}

\* what the provider may answer to POST /api/platform/v1/room
Responses ==
    { [status_code |-> 200,
       meetingLink |-> Some(<<"https://demo.jiomeet.com/shortener", "?", "meetingId", "=", "77",
                              "&", "hostToken", "=", "stale", "&", "name", "=", "Guest">>),
       guestMeetingLink |-> None,
       hostToken |-> Some(<<"host-1">>)],
      [status_code |-> 500, meetingLink |-> None, guestMeetingLink |-> None, hostToken |-> None] }

(***************************************************************************)
(* AppointmentStore: the body of each operation, run with the lock held.   *)
(* Each returns the new slot, the exception raised (if any) and the value  *)
(* returned.                                                               *)
(***************************************************************************)
\* AppointmentStore.get
AppointmentStore_get(slot) ==
    [appointment |-> slot, raised |-> None, ret |-> slot]

\* create with the assignment placed before the check
CreateAssignsFirst(slot, state) ==
    IF slot # None
    THEN [appointment |-> Some(state), raised |-> Some("An appointment already exists"),
          ret |-> None]
    ELSE [appointment |-> Some(state), raised |-> None, ret |-> None]

\* create without the check: a present record is silently replaced
CreateNoCheck(slot, state) ==
    [appointment |-> Some(state), raised |-> None, ret |-> None]

\* AppointmentStore.create
AppointmentStore_create(slot, state) ==
    IF slot # None
    THEN [appointment |-> slot, raised |-> Some("An appointment already exists"), ret |-> None]
    ELSE [appointment |-> Some(state), raised |-> None, ret |-> None]

\* update that returns silently on an empty store, as set_error does
UpdateSilentWhenEmpty(slot, meeting) ==
    IF slot = None
    THEN [appointment |-> slot, raised |-> None, ret |-> None]
    ELSE LET new == [Get(slot) EXCEPT !.meeting = Some(meeting), !.last_error = None]
         IN  [appointment |-> Some(new), raised |-> None, ret |-> Some(new)]

\* update that sets the meeting and leaves last_error as it was
UpdateKeepsError(slot, meeting) ==
    IF slot = None
    THEN [appointment |-> slot, raised |-> Some("No appointment to update"), ret |-> None]
    ELSE LET new == [Get(slot) EXCEPT !.meeting = Some(meeting)]
         IN  [appointment |-> Some(new), raised |-> None, ret |-> Some(new)]

\* AppointmentStore.update
AppointmentStore_update(slot, meeting) ==
    IF slot = None
    THEN [appointment |-> slot, raised |-> Some("No appointment to update"), ret |-> None]
    ELSE LET new == [Get(slot) EXCEPT !.meeting = Some(meeting), !.last_error = None]
         IN  [appointment |-> Some(new), raised |-> None, ret |-> Some(new)]

\* set_error that also drops the meeting
SetErrorDropsMeeting(slot, message) ==
    IF slot # None
    THEN [appointment |-> Some([Get(slot) EXCEPT !.last_error = Some(message),
                                                 !.meeting = None]),
          raised |-> None, ret |-> None]
    ELSE [appointment |-> slot, raised |-> None, ret |-> None]

\* set_error that raises on an empty store, as update does
SetErrorRaisesWhenEmpty(slot, message) ==
    IF slot # None
    THEN [appointment |-> Some([Get(slot) EXCEPT !.last_error = Some(message)]),
          raised |-> None, ret |-> None]
    ELSE [appointment |-> slot, raised |-> Some("No appointment to update"), ret |-> None]

\* AppointmentStore.set_error
AppointmentStore_set_error(slot, message) ==
    IF slot # None
    THEN [appointment |-> Some([Get(slot) EXCEPT !.last_error = Some(message)]),
          raised |-> None, ret |-> None]
    ELSE [appointment |-> slot, raised |-> None, ret |-> None]

\* delete that raises on an empty store, as update does
DeleteRaisesWhenEmpty(slot) ==
    IF slot = None
    THEN [appointment |-> slot, raised |-> Some("No appointment to delete"), ret |-> None]
    ELSE [appointment |-> None, raised |-> None, ret |-> None]

\* AppointmentStore.delete
AppointmentStore_delete(slot) ==
    [appointment |-> None, raised |-> None, ret |-> None]

(***************************************************************************)
(* JioMeetClient.create_meeting, split at its one network await.           *)
(***************************************************************************)
\* JioMeetClient._generate_token: None unless app_id and app_secret are set
generate_token(c) ==
    IF ~(Truthy(c.app_id) /\ Truthy(c.app_secret)) THEN None ELSE Some("jwt")

\* JioMeetClient._create_mock_meeting
create_mock_meeting(c, doctor_name, patient_name, meeting_id, meeting_pin, now_utc) ==
    LET base_host        == Get(Or(c.subdomain, Some(<<"mock.jiomeet.local">>)))
        base_guest_url   == <<"https://">> \o base_host \o <<"/guest">>
        base_with_params == augment_url(base_guest_url,
                                        << <<<<"meetingId">>, Some(meeting_id)>>,
                                           <<<<"pwd">>, Some(meeting_pin)>> >>,
                                        {})
    IN  build_meeting_info(base_with_params, doctor_name, patient_name,
                           Some(<<"mock-host-token">>), "mock", now_utc)

\* f"JioMeet API error {response.status_code}: {response.text}"
api_error(status_code) ==
    CASE status_code = 500 -> "JioMeet API error 500: Internal Server Error"
      [] status_code = 401 -> "JioMeet API error 401: Unauthorized"
      [] status_code = 201 -> "JioMeet API error 201: Created"
      [] OTHER             -> "JioMeet API error"

\* JioMeetClient.create_meeting from the provider's response on:
\* the exception raised, or the MeetingInfo returned
handle_response(response, doctor_name, patient_name, now_utc) ==
    LET base_url == Or(response.meetingLink, response.guestMeetingLink)
    IN  IF response.status_code # 200
        THEN [raised |-> Some(api_error(response.status_code)), meeting |-> None]
        ELSE IF ~Truthy(base_url)
        THEN [raised |-> Some("JioMeet response missing meeting link"), meeting |-> None]
        ELSE [raised  |-> None,
              meeting |-> Some(build_meeting_info(Get(base_url), doctor_name, patient_name,
                                                  response.hostToken, "jiomeet", now_utc))]

(***************************************************************************)
(* State.                                                                  *)
(***************************************************************************)
VARIABLES
    appointment,  \* AppointmentStore._appointment: None or Some(AppointmentState)
    lock,         \* AppointmentStore._lock: None, or Some(task) that holds it
    client,       \* the JioMeetClient built by create_app
    pc,           \* per task: "idle", "lock" (awaiting the store lock), "body"
                  \* (inside the store operation), "client" (awaiting a
                  \* client.create_meeting that makes no network call), "http"
                  \* (inside client.create_meeting, awaiting client.post)
    local,        \* per task: the handler it runs and its local variables
    now,          \* logical clock read by datetime.now(); ticks once per request
    uuids,        \* number of appointment ids drawn from uuid4()
    last,         \* history: the store operation or response completed last
    lastWrite,    \* history: the slot as the sequential store semantics gives it
    prevWrite,    \* history: the write that completed last ("none" before any)
    call,         \* a direct call of a JioMeetClient static method: its arguments
    result        \* the value that call returned, None until it has

vars == <<appointment, lock, client, pc, local, now, uuids, last, lastWrite, prevWrite,
          call, result>>

NoLocal ==
    [handler |-> "none", op |-> "none", state |-> None, appointment |-> None,
     meeting |-> None, exc |-> None]

NoEvent ==
    [handler |-> "none", op |-> "none", prev |-> "none", before |-> None, arg |-> None,
     seen |-> None, raised |-> None, ret |-> None, status |-> None]

\* the store operation `op` of task t completed as `r`; `status` is the HTTP
\* status when the handler ends in the same step, None when it goes on
Event(t, op, arg, r, status) ==
    [handler |-> local[t].handler, op |-> op, prev |-> prevWrite, before |-> appointment,
     arg |-> arg, seen |-> local[t].appointment, raised |-> r.raised, ret |-> r.ret,
     status |-> status]

(***************************************************************************)
(* The store as a sequential object: what each completed write leaves in   *)
(* the slot.  lastWrite is advanced with these, never read by the code.    *)
(***************************************************************************)
SeqCreate(slot, state) == IF slot = None THEN Some(state) ELSE slot

SeqUpdate(slot, meeting) ==
    IF slot = None THEN slot
    ELSE Some([Get(slot) EXCEPT !.meeting = Some(meeting), !.last_error = None])

SeqSetError(slot, message) ==
    IF slot = None THEN slot
    ELSE Some([Get(slot) EXCEPT !.last_error = Some(message)])

SeqDelete(slot) == None

AppInit ==
    /\ appointment = None
    /\ lock = None
    /\ client \in {JioMeetClient(cfg) : cfg \in Configs}
    /\ pc = [t \in Tasks |-> "idle"]
    /\ local = [t \in Tasks |-> NoLocal]
    /\ now = 0
    /\ uuids = 0
    /\ last = NoEvent
    /\ lastWrite = None
    /\ prevWrite = "none"

Init ==
    /\ AppInit
    /\ call = None
    /\ result = None

(***************************************************************************)
(* Request handlers.  A task runs from one await to the next in one step.  *)
(***************************************************************************)
\* a lock that never makes anyone wait
LockFreeAlways(t) == TRUE

\* asyncio.Lock.locked() is False: acquire() returns without suspending
LockFree(t) == lock = None

\* a lock that stays with the meeting handler from its store.get() on, as if
\* the handler held it across the provider call
ReleaseAfterProvider(t) ==
    IF local[t].handler = "create_meeting" /\ local[t].op = "get" /\ appointment # None
    THEN Some(t)
    ELSE None

\* the end of `async with self._lock`: the lock is free again
release(t) == None

\* task t reaches `async with self._lock`: it takes a free lock at once, as
\* asyncio.Lock.acquire does, and otherwise waits for it
Enter(t) ==
    IF LockFree(t)
    THEN /\ lock' = Some(t)
         /\ pc' = [pc EXCEPT ![t] = "body"]
    ELSE /\ lock' = lock
         /\ pc' = [pc EXCEPT ![t] = "lock"]

\* a handler of task t starts and calls store operation op
Begin(t, handler, op, state) ==
    /\ pc[t] = "idle"
    /\ now < MaxRequests
    /\ now' = now + 1
    /\ Enter(t)
    /\ local' = [local EXCEPT ![t] = [NoLocal EXCEPT !.handler = handler, !.op = op,
                                                     !.state = state]]
    /\ UNCHANGED <<appointment, client, last, lastWrite, prevWrite, call, result>>

\* task t leaves its handler with HTTP status `status`
Finish(t) ==
    /\ pc' = [pc EXCEPT ![t] = "idle"]
    /\ local' = [local EXCEPT ![t] = NoLocal]

\* GET /api/appointment up to store.get()
get_appointment(t) ==
    /\ Begin(t, "get_appointment", "get", None)
    /\ UNCHANGED uuids

\* the AppointmentState that create_appointment builds from the payload
NewState(payload, appointment_id, created_at) ==
    [appointment_id |-> appointment_id,
     doctor_name    |-> strip(payload.doctor_name),
     patient_name   |-> strip(Get(Or(payload.patient_name, Some(default_patient)))),
     created_at     |-> created_at,
     meeting        |-> None,
     last_error     |-> None]

\* POST /api/appointment up to store.create(state); a body that the request model
\* rejects never reaches the handler
create_appointment(t, payload) ==
    /\ AppointmentCreateRequest(payload)
    /\ Begin(t, "create_appointment", "create", Some(NewState(payload, uuids + 1, now + 1)))
    /\ uuids' = uuids + 1

\* POST /api/appointment/meeting up to store.get()
create_meeting(t) ==
    /\ Begin(t, "create_meeting", "get", None)
    /\ UNCHANGED uuids

\* DELETE /api/appointment up to store.delete()
delete_appointment(t) ==
    /\ Begin(t, "delete_appointment", "delete", None)
    /\ UNCHANGED uuids

\* a task waiting in `async with self._lock` is woken once the lock is free
acquire(t) ==
    /\ pc[t] = "lock"
    /\ LockFree(t)
    /\ lock' = Some(t)
    /\ pc' = [pc EXCEPT ![t] = "body"]
    /\ UNCHANGED <<appointment, client, local, now, uuids, last, lastWrite, prevWrite, call, result>>

\* client.create_meeting(...) reaches client.post and is suspended there: the
\* client is not in mock mode and has its token
Suspends(c) == ~c.mock_mode /\ generate_token(c) # None

\* store.get() under the lock, then the rest of the handler up to its next await
store_get(t) ==
    LET r == AppointmentStore_get(appointment)
    IN  /\ pc[t] = "body"
        /\ local[t].op = "get"
        /\ appointment' = r.appointment
        /\ lock' = release(t)
        /\ UNCHANGED <<lastWrite, prevWrite>>
        /\ IF local[t].handler = "get_appointment"
           THEN /\ Finish(t)
                /\ last' = Event(t, "get", None, r, Some(200))
           ELSE IF r.ret = None
           THEN /\ Finish(t)
                /\ last' = Event(t, "get", None, r, Some(404))
           ELSE /\ pc' = [pc EXCEPT ![t] = IF Suspends(client) THEN "http" ELSE "client"]
                /\ local' = [local EXCEPT ![t].appointment = r.ret]
                /\ last' = Event(t, "get", None, r, None)
        /\ UNCHANGED <<client, now, uuids, call, result>>

\* store.create(state) under the lock, then 201 or, on ValueError, 409
store_create(t) ==
    LET state == Get(local[t].state)
        r     == AppointmentStore_create(appointment, state)
    IN  /\ pc[t] = "body"
        /\ local[t].op = "create"
        /\ appointment' = r.appointment
        /\ lock' = release(t)
        /\ lastWrite' = IF r.raised = None THEN SeqCreate(lastWrite, state) ELSE lastWrite
        /\ prevWrite' = IF r.raised = None THEN "create" ELSE prevWrite
        /\ Finish(t)
        /\ last' = Event(t, "create", Some(state), r,
                         IF r.raised = None THEN Some(201) ELSE Some(409))
        /\ UNCHANGED <<client, now, uuids, call, result>>

\* store.delete() under the lock, then 200
store_delete(t) ==
    LET r == AppointmentStore_delete(appointment)
    IN  /\ pc[t] = "body"
        /\ local[t].op = "delete"
        /\ appointment' = r.appointment
        /\ lock' = release(t)
        /\ lastWrite' = SeqDelete(lastWrite)
        /\ prevWrite' = "delete"
        /\ Finish(t)
        /\ last' = Event(t, "delete", None, r, Some(200))
        /\ UNCHANGED <<client, now, uuids, call, result>>

\* the handler goes on to store.update(meeting) or, after an exception, store.set_error(str(exc))
Continue(t, outcome) ==
    /\ Enter(t)
    /\ local' = [local EXCEPT ![t].op = IF outcome.raised = None THEN "update" ELSE "set_error",
                              ![t].meeting = outcome.meeting,
                              ![t].exc = outcome.raised]

\* client.create_meeting(...) where it returns or raises without a network call:
\* the mock path, and the real path without a token
client_create_meeting(t) ==
    LET a == Get(local[t].appointment)
    IN  /\ pc[t] = "client"
        /\ IF client.mock_mode
           THEN \E meeting_id \in MockMeetingIds, meeting_pin \in MockPins :
                    Continue(t, [raised  |-> None,
                                 meeting |-> Some(create_mock_meeting(
                                                client, a.doctor_name, a.patient_name,
                                                meeting_id, meeting_pin, now))])
           ELSE Continue(t, [raised |-> Some("Unable to generate JioMeet token"),
                             meeting |-> None])
        /\ UNCHANGED <<appointment, client, now, uuids, last, lastWrite, prevWrite, call, result>>

\* client.post returns a response
http_response(t, response) ==
    LET a == Get(local[t].appointment)
    IN  /\ pc[t] = "http"
        /\ Continue(t, handle_response(response, a.doctor_name, a.patient_name, now))
        /\ UNCHANGED <<appointment, client, now, uuids, last, lastWrite, prevWrite, call, result>>

\* client.post raises (connection failure, the 15 s timeout)
http_failure(t) ==
    /\ pc[t] = "http"
    /\ Continue(t, [raised |-> Some("timed out"), meeting |-> None])
    /\ UNCHANGED <<appointment, client, now, uuids, last, lastWrite, prevWrite, call, result>>

\* store.update(meeting) under the lock, then 200; its ValueError is not caught: 500
store_update(t) ==
    LET meeting == Get(local[t].meeting)
        r       == AppointmentStore_update(appointment, meeting)
    IN  /\ pc[t] = "body"
        /\ local[t].op = "update"
        /\ appointment' = r.appointment
        /\ lock' = release(t)
        /\ lastWrite' = IF r.raised = None THEN SeqUpdate(lastWrite, meeting) ELSE lastWrite
        /\ prevWrite' = IF r.raised = None THEN "update" ELSE prevWrite
        /\ Finish(t)
        /\ last' = Event(t, "update", Some(meeting), r,
                         IF r.raised = None THEN Some(200) ELSE Some(500))
        /\ UNCHANGED <<client, now, uuids, call, result>>

\* store.set_error(str(exc)) under the lock, then 502
store_set_error(t) ==
    LET message == Get(local[t].exc)
        r       == AppointmentStore_set_error(appointment, message)
    IN  /\ pc[t] = "body"
        /\ local[t].op = "set_error"
        /\ appointment' = r.appointment
        /\ lock' = release(t)
        /\ lastWrite' = SeqSetError(lastWrite, message)
        /\ prevWrite' = IF lastWrite = None THEN prevWrite ELSE "set_error"
        /\ Finish(t)
        /\ last' = Event(t, "set_error", Some(message), r, Some(502))
        /\ UNCHANGED <<client, now, uuids, call, result>>

Next ==
    \/ \E t \in Tasks : get_appointment(t)
    \/ \E t \in Tasks, payload \in Payloads : create_appointment(t, payload)
    \/ \E t \in Tasks : create_meeting(t)
    \/ \E t \in Tasks : delete_appointment(t)
    \/ \E t \in Tasks : acquire(t)
    \/ \E t \in Tasks : store_get(t)
    \/ \E t \in Tasks : store_create(t)
    \/ \E t \in Tasks : store_update(t)
    \/ \E t \in Tasks : store_set_error(t)
    \/ \E t \in Tasks : store_delete(t)
    \/ \E t \in Tasks : client_create_meeting(t)
    \/ \E t \in Tasks, response \in Responses : http_response(t, response)
    \/ \E t \in Tasks : http_failure(t)

Spec == Init /\ [][Next]_vars

\* a step of a task that is ready to run at the store: one woken for the
\* lock, one inside a store operation
Ready ==
    \E t \in Tasks :
        \/ acquire(t)
        \/ store_get(t)
        \/ store_create(t)
        \/ store_update(t)
        \/ store_set_error(t)
        \/ store_delete(t)

\* The event loop keeps running the tasks that are ready at the store.
\* Nothing is assumed of a client.create_meeting in progress (client.post may
\* never return) or of the arrival of requests.
Fairness == WF_vars(Ready)

FairSpec == Spec /\ Fairness

(***************************************************************************)
(* The application under create-appointment requests only: every task      *)
(* posts appointments, with bodies of every shape of name, and nobody      *)
(* deletes.                                                                *)
(***************************************************************************)
\* request bodies: a regular one; doctor_name made of whitespace and
\* patient_name omitted; patient_name empty; patient_name made of whitespace;
\* doctor_name empty, which the request model rejects
NamePayloads ==
    { [doctor_name |-> <<"Dr.", " ", "Demo">>, patient_name |-> Some(<<"Jane">>)],
      [doctor_name |-> <<" ">>,                patient_name |-> None],
      [doctor_name |-> <<"Dr.", " ", "Demo">>, patient_name |-> Some(<<>>)],
      [doctor_name |-> <<"Dr.", " ", "Demo">>, patient_name |-> Some(<<" ">>)],
      [doctor_name |-> <<>>,                   patient_name |-> Some(<<"Jane">>)] }

CreateNext ==
    \/ \E t \in Tasks, payload \in NamePayloads : create_appointment(t, payload)
    \/ \E t \in Tasks : acquire(t)
    \/ \E t \in Tasks : store_create(t)

CreateSpec == Init /\ [][CreateNext]_vars

(***************************************************************************)
(* Direct calls of JioMeetClient's static URL derivation, over bounded     *)
(* sets of arguments.  No application is running: the store stays as       *)
(* constructed and no client instance exists.                              *)
(***************************************************************************)
\* number of name=value pairs in the query of a raw base URL
MaxPairs == 2

\* one raw (still encoded) name=value pair as a provider may put it in its link
RawPairs ==
    { <<k, "=">> \o v : k \in {"name", "displayName", "autoJoin", "hostToken", "pwd",
                                "meetingId"},
                        v \in {<<>>, <<"a", "+", "b", "%26">>} }
      \cup { <<"hostToken">> }

RawQueries ==
    { Join(ps, "&") : ps \in UNION { [1..n -> RawPairs] : n \in 0..MaxPairs } }

RawFragments == { <<>>, <<"hostToken", "=", "f">> }

\* raw base URLs: scheme, host and path, then an optional query and fragment
BaseUrls ==
    { urlunparse([prefix |-> <<"https://jiomeet.example/room">>, query |-> q, fragment |-> f]) :
        q \in RawQueries, f \in RawFragments }

DoctorNames == { <<"Dr.", " ", "Demo">>, <<"Jane">> }

PatientNames == { <<"Jane">>, <<"A", "&", "B", "=", "#">> }

HostTokens == { None, Some(<<>>), Some(<<"t", "=", "1">>) }

UrlInit ==
    /\ appointment = None
    /\ lock = None
    /\ client = None
    /\ pc = [t \in Tasks |-> "idle"]
    /\ local = [t \in Tasks |-> NoLocal]
    /\ now = 0
    /\ uuids = 0
    /\ last = NoEvent
    /\ lastWrite = None
    /\ prevWrite = "none"
    /\ call \in { Some([fn |-> "build_meeting_info", base_url |-> u, doctor_name |-> d,
                        patient_name |-> p, host_token |-> h]) :
                    u \in BaseUrls, d \in DoctorNames, p \in PatientNames, h \in HostTokens }
    /\ result = None

\* JioMeetClient._build_meeting_info(base_url, doctor_name, patient_name, host_token, provider)
call_build_meeting_info ==
    /\ call # None
    /\ Get(call).fn = "build_meeting_info"
    /\ result = None
    /\ result' = Some(build_meeting_info(Get(call).base_url, Get(call).doctor_name,
                                         Get(call).patient_name, Get(call).host_token,
                                         "jiomeet", now))
    /\ UNCHANGED <<appointment, lock, client, pc, local, now, uuids, last, lastWrite,
                   prevWrite, call>>

UrlNext ==
    \/ call_build_meeting_info

UrlSpec == UrlInit /\ [][UrlNext]_vars

\* the decoded names of the query parameters of a URL
QueryKeys(url) == DictKeys(parse_qsl(urlparse(url).query))

\* the decoded <<name, value>> items of the query of a URL
QueryItems(url) ==
    LET d == dict(parse_qsl(urlparse(url).query)) IN {d[i] : i \in 1..Len(d)}

(***************************************************************************)
(* Direct calls of JioMeetClient._augment_url: one call with any params    *)
(* mapping and removal set, then a second call on the URL it returned that *)
(* only removes keys.                                                      *)
(***************************************************************************)
\* raw name=value pairs of the URLs handed to _augment_url
AugPairs ==
    { <<k, "=">> \o v : k \in {"name", "pwd", "meetingId"},
                        v \in {<<>>, <<"a", "+", "b", "%26">>} }
      \cup { <<"pwd">> }

AugUrls ==
    { urlunparse([prefix |-> <<"https://jiomeet.example/room">>,
                  query  |-> Join(ps, "&"), fragment |-> <<>>]) :
        ps \in UNION { [1..n -> AugPairs] : n \in 0..MaxPairs } }

ParamKeys == { <<"name">>, <<"pwd">>, <<"hostToken">> }

\* a value of the params mapping: None, or a string
ParamValues == { None, Some(<<"Dr.", " ", "Demo", "&">>) }

\* params mappings of up to two keys, in every order of the keys
ParamMaps ==
    { <<>> }
      \cup { << <<k, v>> >> : k \in ParamKeys, v \in ParamValues }
      \cup { m \in { << <<k1, v1>>, <<k2, v2>> >> :
                        k1 \in ParamKeys, k2 \in ParamKeys,
                        v1 \in ParamValues, v2 \in ParamValues } : m[1][1] # m[2][1] }

RemoveSets == SUBSET { <<"name">>, <<"pwd">> }

AugInit ==
    /\ appointment = None
    /\ lock = None
    /\ client = None
    /\ pc = [t \in Tasks |-> "idle"]
    /\ local = [t \in Tasks |-> NoLocal]
    /\ now = 0
    /\ uuids = 0
    /\ last = NoEvent
    /\ lastWrite = None
    /\ prevWrite = "none"
    /\ call \in { Some([fn |-> "augment_url", base_url |-> u]) : u \in AugUrls }
    /\ result = None

\* JioMeetClient._augment_url(base_url, params, remove_keys) on the URL of the
\* call, or on the URL that the first call returned
call_augment_url(params, remove_keys) ==
    LET base_url == IF result = None THEN Get(call).base_url ELSE Get(result).url
    IN  /\ call # None
        /\ result # None => Get(result).prev = None /\ params = <<>>
        /\ result' = Some([base_url    |-> base_url,
                           params      |-> params,
                           remove_keys |-> remove_keys,
                           url         |-> augment_url(base_url, params, remove_keys),
                           prev        |-> result])
        /\ UNCHANGED <<appointment, lock, client, pc, local, now, uuids, last, lastWrite,
                       prevWrite, call>>

AugNext ==
    \/ \E params \in ParamMaps, remove_keys \in RemoveSets : call_augment_url(params, remove_keys)

AugSpec == AugInit /\ [][AugNext]_vars

(***************************************************************************)
(* Direct calls of JioMeetClient(...).create_meeting(...), over every      *)
(* combination of unset, empty and set credentials and over the answers    *)
(* the provider may give.  The client is built from the configuration of   *)
(* the call; the store is not involved.                                    *)
(***************************************************************************)
\* os.getenv of a credential: unset, set to the empty string, set
Credentials == { None, Some(<<>>), Some(<<"secret">>) }

\* os.getenv("JIOMEET_SUBDOMAIN")
Subdomains == { None, Some(<<>>), Some(<<"demo.jiomeet.com">>) }

ClientConfigs ==
    [app_id : Credentials, app_secret : Credentials, subdomain : Subdomains, mock_mode : BOOLEAN]

\* response.status_code: 200, two other statuses of the 2xx class, two failures
StatusCodes == { 200, 201, 204, 401, 500 }

\* data.get("meetingLink"), data.get("guestMeetingLink"): missing, empty, a link
Links ==
    { None, Some(<<>>),
      Some(<<"https://demo.jiomeet.com/shortener", "?", "meetingId", "=", "77",
             "&", "hostToken", "=", "stale">>) }

ClientResponses ==
    [status_code : StatusCodes, meetingLink : Links, guestMeetingLink : Links,
     hostToken : { None, Some(<<"host-1">>) }]

ClientInit ==
    /\ appointment = None
    /\ lock = None
    /\ pc = [t \in Tasks |-> "idle"]
    /\ local = [t \in Tasks |-> NoLocal]
    /\ now = 0
    /\ uuids = 0
    /\ last = NoEvent
    /\ lastWrite = None
    /\ prevWrite = "none"
    /\ \E cfg \in ClientConfigs :
           /\ client = JioMeetClient(cfg)
           /\ call = Some([fn |-> "create_meeting", cfg |-> cfg,
                           doctor_name |-> <<"Dr.", " ", "Demo">>,
                           patient_name |-> <<"Jane">>])
    /\ result = None

\* what a call of create_meeting did: whether client.post was reached, the
\* response it returned, the exception raised or the MeetingInfo returned
Outcome(posted, response, r) ==
    Some([posted |-> posted, response |-> response, raised |-> r.raised, meeting |-> r.meeting])

\* create_meeting returns or raises before client.post: mock mode, or no token
call_create_meeting_local ==
    /\ call # None
    /\ result = None
    /\ ~Suspends(client)
    /\ IF client.mock_mode
       THEN \E meeting_id \in MockMeetingIds, meeting_pin \in MockPins :
                result' = Outcome(FALSE, None,
                                  [raised  |-> None,
                                   meeting |-> Some(create_mock_meeting(
                                                  client, Get(call).doctor_name,
                                                  Get(call).patient_name,
                                                  meeting_id, meeting_pin, now))])
       ELSE result' = Outcome(FALSE, None,
                              [raised  |-> Some("Unable to generate JioMeet token"),
                               meeting |-> None])
    /\ UNCHANGED <<appointment, lock, client, pc, local, now, uuids, last, lastWrite,
                   prevWrite, call>>

\* create_meeting posts to the provider and handles the response
call_create_meeting_post(response) ==
    /\ call # None
    /\ result = None
    /\ Suspends(client)
    /\ result' = Outcome(TRUE, Some(response),
                         handle_response(response, Get(call).doctor_name,
                                         Get(call).patient_name, now))
    /\ UNCHANGED <<appointment, lock, client, pc, local, now, uuids, last, lastWrite,
                   prevWrite, call>>

\* create_meeting posts to the provider and client.post raises
call_create_meeting_failure ==
    /\ call # None
    /\ result = None
    /\ Suspends(client)
    /\ result' = Outcome(TRUE, None, [raised |-> Some("timed out"), meeting |-> None])
    /\ UNCHANGED <<appointment, lock, client, pc, local, now, uuids, last, lastWrite,
                   prevWrite, call>>

ClientNext ==
    \/ call_create_meeting_local
    \/ \E response \in ClientResponses : call_create_meeting_post(response)
    \/ call_create_meeting_failure

ClientSpec == ClientInit /\ [][ClientNext]_vars

(***************************************************************************)
(* Properties of the store and of the handlers.  `last` describes the      *)
(* store operation that completed most recently: the slot before it, its   *)
(* argument, what it raised and returned, and the HTTP status when the     *)
(* handler ended with it.  The slot changes only when `last` does, so      *)
(* `appointment` is the slot that operation left.                          *)
(***************************************************************************)
\* C1: the store holds at most one appointment, the slot is always what the
\* completed writes, applied one after the other, leave in it, and every get()
\* returns exactly that: the record of the most recently completed
\* create/update/set_error, or nothing after a delete or before any write.
C1_GetReflectsLastWrite ==
    /\ Len(appointment) <= 1
    /\ appointment = lastWrite
    /\ (appointment = None) = (prevWrite \in {"none", "delete"})
    /\ last.op = "get" => /\ last.ret = lastWrite
                          /\ last.raised = None
                          /\ (last.prev \in {"none", "delete"}) = (last.ret = None)

\* a get() has returned a record that a create and then an update wrote
C1_Witness ==
    /\ last.op = "get"
    /\ last.prev = "update"
    /\ last.ret # None
    /\ Get(last.ret).meeting # None

\* C2: at most one task is inside a store operation at any time, and it is
\* the one that holds the lock; the lock is held by nobody else.
C2_MutualExclusion ==
    /\ \A t1, t2 \in Tasks : pc[t1] = "body" /\ pc[t2] = "body" => t1 = t2
    /\ \A t \in Tasks : (pc[t] = "body") = (lock = Some(t))

\* one task is inside a store operation while another waits for the lock
C2_Witness ==
    \E t1, t2 \in Tasks : pc[t1] = "body" /\ pc[t2] = "lock" /\ lock = Some(t1)

\* C3: create(state) on an empty store stores exactly state and the request
\* ends 201; create on a store that holds a record raises, leaves the record
\* unchanged and the request ends 409.
C3_CreateOnceOnly ==
    last.op = "create" =>
        IF last.before = None
        THEN /\ last.raised = None
             /\ appointment = last.arg
             /\ last.status = Some(201)
        ELSE /\ last.raised = Some("An appointment already exists")
             /\ appointment = last.before
             /\ last.status = Some(409)

\* a create has failed on a record that an update had changed since its creation
C3_Witness ==
    /\ last.op = "create"
    /\ last.before # None
    /\ Get(last.before).meeting # None
    /\ last.raised # None
    /\ appointment = last.before

\* C4: on an empty store update raises "No appointment to update" and
\* set_error returns without raising; the store is empty afterwards.
C4_EmptyStoreUpdateSetError ==
    /\ last.op = "update" /\ last.before = None =>
           last.raised = Some("No appointment to update") /\ appointment = None
    /\ last.op = "set_error" /\ last.before = None =>
           last.raised = None /\ appointment = None

\* an update has run on an empty store
C4_Witness ==
    /\ last.op = "update"
    /\ last.before = None
    /\ last.raised # None
    /\ appointment = None

\* C5: update(meeting) on a stored record leaves a record with that meeting and
\* no last_error, whatever last_error was, keeps appointment_id, doctor_name,
\* patient_name and created_at, and returns the record now stored.
C5_UpdateSetsMeetingClearsError ==
    last.op = "update" /\ last.before # None =>
        /\ last.raised = None
        /\ appointment # None
        /\ Get(appointment).meeting = last.arg
        /\ Get(appointment).last_error = None
        /\ Get(appointment).appointment_id = Get(last.before).appointment_id
        /\ Get(appointment).doctor_name = Get(last.before).doctor_name
        /\ Get(appointment).patient_name = Get(last.before).patient_name
        /\ Get(appointment).created_at = Get(last.before).created_at
        /\ last.ret = appointment

\* an update has run on a record that carried an error
C5_Witness ==
    /\ last.op = "update"
    /\ last.before # None
    /\ Get(last.before).last_error # None
    /\ appointment # None
    /\ Get(appointment).last_error = None

\* C6: set_error(message) on a stored record sets last_error to message and
\* leaves meeting, appointment_id, doctor_name, patient_name and created_at as
\* they were.
C6_SetErrorFrame ==
    last.op = "set_error" /\ last.before # None =>
        /\ appointment # None
        /\ Get(appointment).last_error = last.arg
        /\ Get(appointment).meeting = Get(last.before).meeting
        /\ Get(appointment).appointment_id = Get(last.before).appointment_id
        /\ Get(appointment).doctor_name = Get(last.before).doctor_name
        /\ Get(appointment).patient_name = Get(last.before).patient_name
        /\ Get(appointment).created_at = Get(last.before).created_at

\* a set_error has run on a record that has a meeting
C6_Witness ==
    /\ last.op = "set_error"
    /\ last.before # None
    /\ Get(last.before).meeting # None
    /\ appointment # None
    /\ Get(appointment).last_error # None

\* C7: delete never raises and leaves the store empty whether or not a record
\* was present; once a delete is the last completed write, get() returns
\* nothing, a second delete changes nothing and create succeeds.
C7_DeleteIdempotent ==
    /\ last.op = "delete" => /\ last.raised = None
                             /\ appointment = None
                             /\ last.status = Some(200)
    /\ last.prev = "delete" => last.before = None
    /\ last.prev = "delete" /\ last.op = "get" => last.ret = None
    /\ last.prev = "delete" /\ last.op = "create" =>
           last.raised = None /\ appointment = last.arg /\ last.status = Some(201)

\* a second appointment has been created after the first was deleted
C7_Witness ==
    /\ last.op = "create"
    /\ last.prev = "delete"
    /\ last.status = Some(201)
    /\ Get(last.arg).appointment_id = 2

\* the handler create_meeting has just recorded a provider failure
MeetingFailed == last.handler = "create_meeting" /\ last.op = "set_error"

\* C8 as stated: after a meeting-creation request whose provider call failed,
\* the record read at the start of the request is in the store, with no
\* meeting attached and with last_error set to the failure message.
C8_FailureKeepsRecordWithoutMeeting ==
    MeetingFailed =>
        /\ appointment # None
        /\ Get(appointment).appointment_id = Get(last.seen).appointment_id
        /\ Get(appointment).meeting = None
        /\ Get(appointment).last_error = last.arg

\* C8 amended: a meeting-creation request whose provider call failed ends 502
\* and never raises from set_error; the store holds the record it held when the
\* error was recorded, with last_error set to the failure message and every
\* other field, meeting included, as it was (nothing if the record had been
\* deleted meanwhile); when no other request wrote in between, that record is
\* the one read at the start of the request.
C8_FailureRecordsError ==
    MeetingFailed =>
        /\ last.status = Some(502)
        /\ last.raised = None
        /\ last.seen # None
        /\ IF last.before = None
           THEN appointment = None
           ELSE appointment = Some([Get(last.before) EXCEPT !.last_error = last.arg])
        /\ last.before = last.seen =>
               /\ appointment # None
               /\ Get(appointment).appointment_id = Get(last.seen).appointment_id
               /\ Get(appointment).meeting = Get(last.seen).meeting
               /\ Get(appointment).last_error = last.arg

\* a meeting creation has failed for a record that already had a meeting, with
\* no other write in between: the record is kept, meeting attached, error set
C8_Witness ==
    /\ MeetingFailed
    /\ last.before = last.seen
    /\ Get(last.seen).meeting # None
    /\ appointment # None
    /\ Get(appointment).meeting # None
    /\ Get(appointment).last_error = last.arg

\* C9: every meeting-creation request ends in one of three ways: 200 with the
\* returned record carrying the new meeting, 404 because store.get() found no
\* appointment, or 502 because the provider call failed; the ValueError of
\* store.update never ends the request in any other way.  Stated for the real
\* provider, whose network call is where other requests run in between.
C9_MeetingOutcomes ==
    ~client.mock_mode /\ last.handler = "create_meeting" /\ last.status # None =>
        \/ /\ last.status = Some(200)
           /\ last.op = "update"
           /\ last.ret # None
           /\ Get(last.ret).meeting = last.arg
        \/ /\ last.status = Some(404)
           /\ last.op = "get"
           /\ last.ret = None
        \/ /\ last.status = Some(502)
           /\ last.op = "set_error"

\* C10: the patient_url of build_meeting_info has no hostToken query
\* parameter, and with a host token present doctor_url differs from
\* patient_url, for every raw base URL, names and token.
C10_PatientUrlHasNoHostToken ==
    result # None =>
        /\ <<"hostToken">> \notin QueryKeys(Get(result).patient_url)
        /\ Get(call).host_token # None =>
               /\ Get(result).doctor_url # Get(result).patient_url
               /\ <<"hostToken">> \in QueryKeys(Get(result).doctor_url)

\* links were built for equal doctor and patient names, with a host token, from
\* a base URL whose query already carried hostToken and name
C10_Witness ==
    /\ result # None
    /\ Get(call).host_token # None
    /\ Get(call).doctor_name = Get(call).patient_name
    /\ {<<"hostToken">>, <<"name">>} \subseteq QueryKeys(Get(call).base_url)
    /\ Get(result).doctor_url # Get(result).patient_url

\* C18: the meeting or error that a meeting request attaches to the stored
\* appointment was produced for that same appointment: the record that
\* store.update or store.set_error changes has the appointment_id of the
\* record the handler read when it started.  (Stated for a client that calls
\* the provider, where the handler is suspended in client.post.)
C18_MeetingForSameAppointment ==
    /\ ~client.mock_mode
    /\ last.handler = "create_meeting"
    /\ last.op \in {"update", "set_error"}
    /\ last.before # None
    => Get(last.before).appointment_id = Get(last.seen).appointment_id

\* C13: every store operation that a request has invoked eventually returns
\* or raises, also while other requests stay in the provider call for ever:
\* again and again no task is waiting for the lock or inside a store
\* operation.  A request that awaits the provider never holds the lock.
C13_StoreOperationsTerminate ==
    /\ [](\A t \in Tasks : pc[t] \in {"http", "client"} => lock # Some(t))
    /\ []<>(\A t \in Tasks : pc[t] \notin {"lock", "body"})

\* one request is in the provider call while another waits for the lock
\* that a third operation holds
C13_Witness ==
    \E t, u \in Tasks :
        /\ pc[t] = "http"
        /\ pc[u] \in {"lock", "body"}
        /\ lock # None

\* C17: the appointment held in the store has a doctor_name and a
\* patient_name that are non-empty after trimming, whatever accepted request
\* created it.
C17_StoredNamesNonEmpty ==
    appointment # None =>
        /\ strip(Get(appointment).doctor_name) # <<>>
        /\ strip(Get(appointment).patient_name) # <<>>

\* C19: of the create requests that run concurrently against the empty store,
\* with no delete, exactly one succeeds and its state is the stored record:
\* the create that completes on the empty store answers 201 and stores its
\* state, every create that completes afterwards answers 409, and the stored
\* record never changes again.
C19_ExactlyOneCreateSucceeds ==
    [][ /\ appointment # None => appointment' = appointment
        /\ \A t \in Tasks :
               pc[t] = "body" /\ pc'[t] = "idle" =>
                   IF appointment = None
                   THEN /\ last'.status = Some(201)
                        /\ last'.raised = None
                        /\ appointment' = last'.arg
                   ELSE /\ last'.status = Some(409)
                        /\ last'.raised # None ]_vars

\* a create has succeeded while another create, requested while the first
\* was inside the store, waits for the lock
C19_Witness ==
    /\ last.op = "create"
    /\ last.status = Some(201)
    /\ appointment = last.arg
    /\ \E u \in Tasks :
           /\ pc[u] = "lock"
           /\ local[u].op = "create"
           /\ Get(local[u].state).appointment_id # Get(appointment).appointment_id

\* the decoded <<name, value>> pairs of the query of a URL, as written:
\* repeated names are kept
QueryPairs(url) == parse_qsl(urlparse(url).query)

\* the pairs of the raw base URL of the call whose name is none of
\* displayName, name, autoJoin, hostToken
OtherPairs ==
    SelectSeq(QueryPairs(Get(call).base_url),
              LAMBDA kv : kv[1] \notin {<<"displayName">>, <<"name">>, <<"autoJoin">>,
                                        <<"hostToken">>})

\* C15 as stated: the base_url returned by build_meeting_info has none of
\* the query parameters displayName, name, autoJoin, hostToken, and every other
\* query parameter of the raw URL is still there with its value, in the
\* original relative order.
C15_SanitizedBaseKeepsOthers ==
    result # None =>
        /\ QueryKeys(Get(result).base_url)
               \cap {<<"displayName">>, <<"name">>, <<"autoJoin">>, <<"hostToken">>} = {}
        /\ QueryPairs(Get(result).base_url) = OtherPairs

\* C15, amended: the base_url returned by build_meeting_info has none of the
\* query parameters displayName, name, autoJoin, hostToken; every other
\* parameter name of the raw URL is there exactly once, at the place of its
\* first occurrence and with the value of its last occurrence, in the original
\* relative order of the names.
C15_SanitizedBaseKeepsOtherNames ==
    result # None =>
        /\ QueryKeys(Get(result).base_url)
               \cap {<<"displayName">>, <<"name">>, <<"autoJoin">>, <<"hostToken">>} = {}
        /\ QueryPairs(Get(result).base_url) = dict(OtherPairs)

\* a raw URL that gives pwd twice with different values, or two other names
\* around a hostToken, has been sanitized
C15_Witness ==
    /\ result # None
    /\ \/ /\ Len(OtherPairs) = 2
          /\ OtherPairs[1][1] = OtherPairs[2][1]
          /\ OtherPairs[1][2] # OtherPairs[2][2]
          /\ Len(QueryPairs(Get(result).base_url)) = 1
       \/ /\ Len(OtherPairs) = 2
          /\ OtherPairs[1][1] = <<"pwd">>
          /\ OtherPairs[2][1] = <<"meetingId">>
          /\ Len(QueryPairs(Get(call).base_url)) = 3
          /\ QueryPairs(Get(call).base_url)[2][1] = <<"hostToken">>

(***************************************************************************)
(* Properties of _augment_url.  `result` describes the last call: the URL  *)
(* it was given, its params mapping and removal set, the URL it returned,  *)
(* and in `prev` the call before it.  The query of a URL is compared as    *)
(* the ordered mapping of decoded names to decoded values.                 *)
(***************************************************************************)
\* the query of a URL as an ordered mapping
QueryMap(url) == dict(QueryPairs(url))

\* the last call only removed keys, none of which was in the query
RemovedAbsentKeys ==
    /\ result # None
    /\ Get(result).params = <<>>
    /\ Get(result).remove_keys # {}
    /\ Get(result).remove_keys \cap QueryKeys(Get(result).base_url) = {}

\* the first call set one key and nothing else, the second removed that key
\* and nothing else
SetThenRemoved ==
    /\ result # None
    /\ Get(result).prev # None
    /\ Get(Get(result).prev).remove_keys = {}
    /\ Len(Get(Get(result).prev).params) = 1
    /\ Get(Get(result).prev).params[1][2] # None
    /\ Get(result).params = <<>>
    /\ Get(result).remove_keys = { Get(Get(result).prev).params[1][1] }

\* C12 as stated: removing a key that is not in the query leaves the query
\* unchanged; setting a key k and then removing k restores the original
\* query, the remaining keys in their original order.
C12_SetRemoveRestoresQuery ==
    /\ RemovedAbsentKeys => QueryMap(Get(result).url) = QueryMap(Get(result).base_url)
    /\ SetThenRemoved =>
           QueryMap(Get(result).url) = QueryMap(Get(Get(result).prev).base_url)

\* C12, amended: removing a key that is not in the query leaves the query
\* unchanged; setting a key k and then removing k gives the original query
\* without k, the remaining keys in their original order: the original query
\* itself exactly when k was not in it.
C12_SetRemoveDropsKey ==
    /\ RemovedAbsentKeys => QueryMap(Get(result).url) = QueryMap(Get(result).base_url)
    /\ SetThenRemoved =>
           LET u == Get(Get(result).prev).base_url
               k == Get(Get(result).prev).params[1][1]
           IN  /\ QueryMap(Get(result).url) = SelectSeq(QueryMap(u), LAMBDA kv : kv[1] # k)
               /\ k \notin QueryKeys(u) => QueryMap(Get(result).url) = QueryMap(u)

\* name was set and then removed on a URL whose query had pwd and name
C12_Witness ==
    /\ SetThenRemoved
    /\ Get(result).remove_keys = { <<"name">> }
    /\ QueryKeys(Get(Get(result).prev).base_url) = { <<"pwd">>, <<"name">> }
    /\ QueryKeys(Get(result).url) = { <<"pwd">> }

\* the value the params mapping gives key k, None when it gives none
ParamOf(params, k) ==
    IF \E i \in 1..Len(params) : params[i][1] = k
    THEN LET i == CHOOSE j \in 1..Len(params) : params[j][1] = k IN params[i][2]
    ELSE None

\* the original items that survive: not in the removal set, not mapped to None
Survivors(url, params, remove_keys) ==
    SelectSeq(QueryMap(url),
              LAMBDA kv : /\ kv[1] \notin remove_keys
                          /\ ~\E i \in 1..Len(params) : params[i][1] = kv[1] /\ params[i][2] = None)

\* the items the mapping introduces: its keys with a value that are not survivors
Introduced(url, params, remove_keys) ==
    LET kept == DictKeys(Survivors(url, params, remove_keys))
        new  == SelectSeq(params, LAMBDA kv : kv[2] # None /\ kv[1] \notin kept)
    IN  [i \in 1..Len(new) |-> <<new[i][1], Get(new[i][2])>>]

\* C16: the query of the URL that _augment_url returns lists the original
\* keys that survive removal in their original order, with the mapping's value
\* where it supplies one, and then the keys the mapping introduces in the
\* mapping's order; a key mapped to None is not in the result.
C16_SurvivorsThenIntroduced ==
    result # None =>
        LET url    == Get(result).base_url
            params == Get(result).params
            remove == Get(result).remove_keys
            surv   == Survivors(url, params, remove)
            over   == [i \in 1..Len(surv) |->
                          IF ParamOf(params, surv[i][1]) # None
                          THEN <<surv[i][1], Get(ParamOf(params, surv[i][1]))>>
                          ELSE surv[i]]
        IN  /\ QueryPairs(Get(result).url) = over \o Introduced(url, params, remove)
            /\ \A i \in 1..Len(params) :
                   params[i][2] = None => params[i][1] \notin QueryKeys(Get(result).url)

\* a call overwrote the second of two original keys, kept the first and
\* introduced a third
C16_Witness ==
    /\ result # None
    /\ Get(result).prev = None
    /\ Get(result).remove_keys = {}
    /\ Len(QueryMap(Get(result).base_url)) = 2
    /\ Len(Get(result).params) = 2
    /\ Get(result).params[1][1] = QueryMap(Get(result).base_url)[2][1]
    /\ Get(result).params[1][2] # None
    /\ Get(result).params[2][1] \notin QueryKeys(Get(result).base_url)
    /\ Get(result).params[2][2] # None
    /\ Len(QueryPairs(Get(result).url)) = 3

(***************************************************************************)
(* Properties of JioMeetClient.create_meeting.  `call` holds the           *)
(* configuration the client was built from, `result` what the call did.    *)
(***************************************************************************)
\* the three credentials of the configuration of the call
CredentialsOf(cfg) == { cfg.app_id, cfg.app_secret, cfg.subdomain }

\* a mock-mode call made no network request and returned a mock MeetingInfo
\* whose base_url carries the generated meetingId and pwd
MockOutcome ==
    result # None /\ client.mock_mode =>
        /\ ~Get(result).posted
        /\ Get(result).raised = None
        /\ Get(result).meeting # None
        /\ Get(Get(result).meeting).provider = "mock"
        /\ \E meeting_id \in MockMeetingIds, meeting_pin \in MockPins :
               { <<<<"meetingId">>, meeting_id>>, <<<<"pwd">>, meeting_pin>> }
                   \subseteq QueryItems(Get(Get(result).meeting).base_url)

\* C11 as stated: the client is in mock mode if and only if one of application
\* id, application secret, subdomain is absent or the override is set; a
\* mock-mode create_meeting issues no network request and returns provider =
\* mock with meetingId and pwd on base_url.
C11_MockIffAbsentOrForced ==
    /\ client.mock_mode = (Get(call).cfg.mock_mode
                             \/ \E c \in CredentialsOf(Get(call).cfg) : c = None)
    /\ MockOutcome

\* C11, amended: the client is in mock mode if and only if one of application
\* id, application secret, subdomain is absent or the empty string, or the
\* override is set; a mock-mode create_meeting issues no network request and
\* returns provider = mock with meetingId and pwd on base_url.
C11_MockIffBlankOrForced ==
    /\ client.mock_mode = (Get(call).cfg.mock_mode
                             \/ \E c \in CredentialsOf(Get(call).cfg) : c = None \/ c = Some(<<>>))
    /\ MockOutcome

\* a client whose application id is set to the empty string, with the override
\* off and the other credentials set, has returned a mock meeting
C11_Witness ==
    /\ result # None
    /\ ~Get(call).cfg.mock_mode
    /\ Get(call).cfg.app_id = Some(<<>>)
    /\ Truthy(Get(call).cfg.app_secret)
    /\ Truthy(Get(call).cfg.subdomain)
    /\ client.mock_mode
    /\ Get(Get(result).meeting).provider = "mock"

\* a success status in the sense of HTTP: the 2xx class
IsSuccess(status_code) == status_code >= 200 /\ status_code <= 299

\* C14: in real mode create_meeting raises and returns no MeetingInfo whenever
\* the response status is not a success status, and whenever a success
\* response carries neither meetingLink nor guestMeetingLink; it returns a
\* MeetingInfo with provider = jiomeet for every success response that
\* carries one of the two links.  (A link field holding the empty string
\* counts as not carried.)
C14_RealModeOutcomes ==
    result # None /\ Get(result).response # None =>
        LET response == Get(Get(result).response)
            carried  == Truthy(response.meetingLink) \/ Truthy(response.guestMeetingLink)
        IN  IF IsSuccess(response.status_code) /\ carried
            THEN /\ Get(result).raised = None
                 /\ Get(result).meeting # None
                 /\ Get(Get(result).meeting).provider = "jiomeet"
            ELSE /\ Get(result).raised # None
                 /\ Get(result).meeting = None

=============================================================================
